---- MODULE Spec2Model ----
(***************************************************************************)
(* Model of the enforce-doc-labels webhook (src/main.go): main, receiver,  *)
(* validateHeaderSig, hasDocLabels and reopenIssue, with the GitHub issue  *)
(* the remote calls act on.                                                *)
(*                                                                         *)
(* Text that the code converts or compares byte by byte (header names,     *)
(* signature values) is a sequence of ASCII codes.  Label names and issue  *)
(* states are only ever compared for equality and are TLA+ strings.        *)
(* A Go pointer is a sequence of length 0 (nil) or 1 (the pointee).        *)
(***************************************************************************)
EXTENDS Integers, Sequences, FiniteSets, TLC

\* ---------------------------------------------------------------- bounds
\* Number of webhook deliveries the server handles (concurrently).
NumDeliveries == 2
\* Length in bytes of the abstract HMAC digest (sha1.Size is 20).
DigestLen == 2
\* Longest label list handed to hasDocLabels on its own.
MaxLabels == 2

Deliveries == 1..NumDeliveries

\* ------------------------------------------------------- program constants
docsHasImpact == "docs/has-impact"
docsNoImpact == "docs/no-impact"
StatusBadRequest == 400
StatusOK == 200

\* "X-Hub-Signature", the literal of validateHeaderSig
XHubSignature == <<88, 45, 72, 117, 98, 45, 83, 105, 103, 110, 97, 116, 117, 114, 101>>
\* "sha1="
Sha1Prefix == <<115, 104, 97, 49, 61>>

\* ------------------------------------------------------------- variables
VARIABLES
  mainPc,            \* position of main: "start" or "serving"
  secretToken,       \* var secretToken []byte
  githubAccessToken, \* var githubAccessToken string
  pc,                \* pc[d]: position of delivery d's receiver call
  req,               \* req[d]: the request: header map, body, body read error
  validated,         \* validated[d]: result of validateHeaderSig
  event,             \* event[d]: var event *github.IssueEvent
  policy,            \* policy[d]: result of hasDocLabels, "notrun" before
  status,            \* status[d]: status code the handler wrote, 0 if none
  decodeCalls,       \* decodeCalls[d]: calls of decoder.Decode
  reopenCalls,       \* reopenCalls[d]: calls of reopenIssue
  calls,             \* calls[d]: remote calls issued, in order, with outcome
  reopenErr,         \* reopenErr[d]: reopenIssue returned a non-nil error
  issueState,        \* state of the issue on GitHub
  comments,          \* number of comments on the issue on GitHub
  edits              \* number of edits applied to the issue on GitHub

vars == <<mainPc, secretToken, githubAccessToken, pc, req, validated, event,
          policy, status, decodeCalls, reopenCalls, calls, reopenErr,
          issueState, comments, edits>>

\* ------------------------------------------------------------ header names
IsLower(c) == c >= 97 /\ c <= 122
IsUpper(c) == c >= 65 /\ c <= 90
IsDigit(c) == c >= 48 /\ c <= 57

\* net/http's validHeaderFieldByte: the token characters of RFC 7230
validHeaderFieldByte(c) ==
  \/ IsLower(c) \/ IsUpper(c) \/ IsDigit(c)
  \/ c \in {33, 35, 36, 37, 38, 39, 42, 43, 45, 46, 94, 95, 96, 124, 126}

\* http.CanonicalHeaderKey: the first letter and every letter after a hyphen
\* in upper case, the others in lower case; a name holding a byte that is no
\* token character is returned unchanged.
CanonicalHeaderKey(k) ==
  IF \E i \in 1..Len(k) : ~validHeaderFieldByte(k[i])
  THEN k
  ELSE [i \in 1..Len(k) |->
          LET upper == (i = 1) \/ (k[i - 1] = 45)
          IN  IF upper /\ IsLower(k[i]) THEN k[i] - 32
              ELSE IF ~upper /\ IsUpper(k[i]) THEN k[i] + 32
              ELSE k[i]]

\* -------------------------------------------------------------- signature
\* Numeric code of a key: an injective fold on the keys of the model.
RECURSIVE KeyCode(_)
KeyCode(key) == IF key = <<>> THEN 0 ELSE (key[1] % 8) + 2 * KeyCode(Tail(key))

\* hmac.New(sha1.New, key); mac.Write(body); mac.Sum(nil): an abstract digest,
\* injective in (key, body) on the model's keys and bodies.
hmacSum(key, body) ==
  [i \in 1..DigestLen |-> (31 * KeyCode(key) + 17 * body + 7 * i) % 256]

\* One hexadecimal digit, lower case, as hex.EncodeToString writes it.
HexDigit(n) == IF n < 10 THEN 48 + n ELSE 87 + n

\* hex.EncodeToString: two digits per byte, high nibble first.
hexEncodeToString(bytes) ==
  [i \in 1..(2 * Len(bytes)) |->
     LET b == bytes[(i + 1) \div 2]
     IN  IF i % 2 = 1 THEN HexDigit(b \div 16) ELSE HexDigit(b % 16)]

\* hmac.Equal: equal lengths and equal bytes (in constant time).
hmacEqual(a, b) == Len(a) = Len(b) /\ \A i \in 1..Len(a) : a[i] = b[i]

\* The value GitHub sends for body under key: "sha1=" and the hex digest.
ExpectedSignature(key, body) == Sha1Prefix \o hexEncodeToString(hmacSum(key, body))

\* validateLoop without the check that the header holds exactly one value: the
\* first value is compared whenever there is one.
RECURSIVE validateLoop_NoLenCheck(_, _, _, _)
validateLoop_NoLenCheck(headers, body, order, i) ==
  IF i > Len(order) THEN FALSE
  ELSE LET k == order[i]
           v == headers[k]
       IN  IF CanonicalHeaderKey(k) = XHubSignature
           THEN IF Len(v) = 0 THEN FALSE
                ELSE hmacEqual(v[1], ExpectedSignature(secretToken, body))
           ELSE validateLoop_NoLenCheck(headers, body, order, i + 1)

\* validateHeaderSig, with the order in which range visits the map's keys
\* (Go leaves it unspecified) as the sequence order.  hash.Hash.Write never
\* returns an error, so that branch is not taken.
RECURSIVE validateLoop(_, _, _, _)
validateLoop(headers, body, order, i) ==
  IF i > Len(order) THEN FALSE
  ELSE LET k == order[i]
           v == headers[k]
       IN  IF CanonicalHeaderKey(k) = XHubSignature
           THEN IF Len(v) # 1 THEN FALSE
                ELSE hmacEqual(v[1], ExpectedSignature(secretToken, body))
           ELSE validateLoop(headers, body, order, i + 1)

validateHeaderSig(headers, body, order) == validateLoop(headers, body, order, 1)

\* The orders in which a range over a map with these keys may visit them.
RangeOrders(keys) ==
  {o \in [1..Cardinality(keys) -> keys] : \A k \in keys : \E i \in DOMAIN o : o[i] = k}

\* ---------------------------------------------------------------- payloads
\* A JSON text, as its syntax tree.  JBad is a text that is not JSON.
JBad == [kind |-> "bad"]
JNull == [kind |-> "null"]
JNum == [kind |-> "number"]
JStr(s) == [kind |-> "string", str |-> s]
JArr(items) == [kind |-> "array", items |-> items]
JObj(fields) == [kind |-> "object", fields |-> fields]

Has(v, key) == key \in DOMAIN v.fields

\* encoding/json into a *string field: a string sets it, null or an absent
\* key leaves it nil, any other value is a type error.
DecodeString(v, key) ==
  IF ~Has(v, key) \/ v.fields[key].kind = "null" THEN [err |-> FALSE, val |-> <<>>]
  ELSE IF v.fields[key].kind = "string"
       THEN [err |-> FALSE, val |-> <<v.fields[key].str>>]
       ELSE [err |-> TRUE, val |-> <<>>]

\* encoding/json into a github.Label: only the name is read by the program.
DecodeLabel(v) ==
  IF v.kind = "null" THEN [err |-> FALSE, val |-> [Name |-> <<>>]]
  ELSE IF v.kind = "object"
       THEN LET n == DecodeString(v, "name")
            IN  [err |-> n.err, val |-> [Name |-> n.val]]
       ELSE [err |-> TRUE, val |-> [Name |-> <<>>]]

\* encoding/json into Labels []github.Label
DecodeLabels(v) ==
  IF ~Has(v, "labels") \/ v.fields["labels"].kind = "null" THEN [err |-> FALSE, val |-> <<>>]
  ELSE IF v.fields["labels"].kind = "array"
       THEN LET items == v.fields["labels"].items
                each == [i \in 1..Len(items) |-> DecodeLabel(items[i])]
            IN  [err |-> \E i \in 1..Len(items) : each[i].err,
                 val |-> [i \in 1..Len(items) |-> each[i].val]]
       ELSE [err |-> TRUE, val |-> <<>>]

\* encoding/json into Issue *github.Issue
DecodeIssue(v) ==
  IF ~Has(v, "issue") \/ v.fields["issue"].kind = "null" THEN [err |-> FALSE, val |-> <<>>]
  ELSE IF v.fields["issue"].kind = "object"
       THEN LET st == DecodeString(v.fields["issue"], "state")
                ls == DecodeLabels(v.fields["issue"])
            IN  [err |-> st.err \/ ls.err,
                 val |-> <<[State |-> st.val, Labels |-> ls.val]>>]
       ELSE [err |-> TRUE, val |-> <<>>]

\* decoder.Decode(&event) with event a nil *github.IssueEvent: a JSON null
\* leaves the pointer nil without an error; an object allocates the event.
Decode(v) ==
  IF v.kind = "bad" THEN [err |-> TRUE, val |-> <<>>]
  ELSE IF v.kind = "null" THEN [err |-> FALSE, val |-> <<>>]
  ELSE IF v.kind = "object"
       THEN LET is == DecodeIssue(v)
            IN  [err |-> is.err, val |-> <<[Issue |-> is.val]>>]
       ELSE [err |-> TRUE, val |-> <<>>]

\* ----------------------------------------------------------- label policy
\* (*github.Label).GetName: the empty string for a nil name
GetName(label) == IF label.Name = <<>> THEN "" ELSE label.Name[1]

\* hasDocLabelsFrom with the return false inside the loop: only the label at i
\* is looked at.
hasDocLabelsFrom_FirstOnly(labels, i) ==
  IF i > Len(labels) THEN FALSE
  ELSE LET name == GetName(labels[i])
       IN  name = docsHasImpact \/ name = docsNoImpact

\* hasDocLabels: the loop over the labels, returning at the first match
RECURSIVE hasDocLabelsFrom(_, _)
hasDocLabelsFrom(labels, i) ==
  IF i > Len(labels) THEN FALSE
  ELSE LET name == GetName(labels[i])
       IN  IF name = docsHasImpact \/ name = docsNoImpact THEN TRUE
           ELSE hasDocLabelsFrom(labels, i + 1)

hasDocLabels(labels) == hasDocLabelsFrom(labels, 1)

\* ----------------------------------------------------------------- inputs
\* DOC_ENFORCER_SECRET_TOKEN and DOC_ENFORCER_GITHUB_ACCESS_TOKEN as set in
\* the environment of the process.
Secrets == {<<115>>, <<116>>}
AccessTokens == {"token"}

LabelObj(n) == JObj([name |-> JStr(n)])
IssueBody(state, labels) ==
  JObj([issue |-> JObj([state |-> JStr(state), labels |-> JArr(labels)])])

\* The request bodies of the model; a body is named by its index here.
Bodies == <<
  JBad,                                                    \*  1 not JSON
  JNull,                                                   \*  2 null
  JArr(<<>>),                                              \*  3 []
  JObj(<<>>),                                              \*  4 {}
  JObj([issue |-> JNull]),                                 \*  5 issue null
  JObj([issue |-> JObj([labels |-> JArr(<<>>)])]),         \*  6 no state
  JObj([issue |-> JObj([state |-> JNull])]),               \*  7 state null
  JObj([issue |-> JObj([state |-> JNum])]),                \*  8 state 5
  IssueBody("open", <<>>),                                 \*  9
  IssueBody("open", <<LabelObj(docsHasImpact)>>),          \* 10
  IssueBody("closed", <<>>),                               \* 11
  JObj([issue |-> JObj([state |-> JStr("closed")])]),      \* 12 no labels key
  IssueBody("closed", <<LabelObj(docsHasImpact)>>),        \* 13
  IssueBody("closed", <<LabelObj(docsNoImpact)>>),         \* 14
  IssueBody("closed", <<LabelObj("bug")>>),                \* 15
  IssueBody("closed", <<LabelObj("bug"), LabelObj(docsNoImpact)>>), \* 16
  IssueBody("closed", <<LabelObj("Docs/Has-Impact")>>),    \* 17
  IssueBody("closed", <<JObj(<<>>)>>),                     \* 18 label, no name
  IssueBody("Closed", <<>>)                                \* 19
>>
BodyIds == 1..Len(Bodies)

\* "Content-Type"
ContentType == <<67, 111, 110, 116, 101, 110, 116, 45, 84, 121, 112, 101>>
\* "application/json"
AppJson == <<97, 112, 112, 108, 105, 99, 97, 116, 105, 111, 110, 47, 106, 115, 111, 110>>

\* s with bit number bit of its byte at position pos flipped
FlipBit(s, pos, bit) ==
  [s EXCEPT ![pos] = IF (s[pos] \div (2 ^ bit)) % 2 = 1
                     THEN s[pos] - 2 ^ bit ELSE s[pos] + 2 ^ bit]

\* The value lists of X-Hub-Signature a sender of body may send to the server:
\* signed under either secret, damaged, or sent twice.
SenderSignatures(body) ==
  {<<ExpectedSignature(k, body)>> : k \in Secrets}
    \cup {<<FlipBit(ExpectedSignature(<<115>>, body), Len(Sha1Prefix) + 1, 0)>>,
          <<ExpectedSignature(<<115>>, body), ExpectedSignature(<<115>>, body)>>}

\* req.Header as net/http builds it: the names canonical, so one entry per name.
ReceiverHeaders(body) ==
  {ContentType :> <<AppJson>>}
    \cup {(ContentType :> <<AppJson>>) @@ (XHubSignature :> v) : v \in SenderSignatures(body)}

\* The body whose read fails in the model is the closed, unlabelled issue.
Requests ==
  UNION {{[header |-> h, body |-> b, readErr |-> FALSE] : h \in ReceiverHeaders(b)} :
            b \in BodyIds}
    \cup {[header |-> h, body |-> 11, readErr |-> TRUE] : h \in ReceiverHeaders(11)}

NoRequest == [header |-> <<>>, body |-> 0, readErr |-> FALSE]

\* ------------------------------------------------------------------- Init
Init ==
  /\ mainPc = "start"
  /\ secretToken = <<>>
  /\ githubAccessToken = ""
  /\ pc = [d \in Deliveries |-> "idle"]
  /\ req = [d \in Deliveries |-> NoRequest]
  /\ validated = [d \in Deliveries |-> FALSE]
  /\ event = [d \in Deliveries |-> <<>>]
  /\ policy = [d \in Deliveries |-> "notrun"]
  /\ status = [d \in Deliveries |-> 0]
  /\ decodeCalls = [d \in Deliveries |-> 0]
  /\ reopenCalls = [d \in Deliveries |-> 0]
  /\ calls = [d \in Deliveries |-> <<>>]
  /\ reopenErr = [d \in Deliveries |-> FALSE]
  /\ issueState = "closed"
  /\ comments = 0
  /\ edits = 0

tokenVars == <<secretToken, githubAccessToken>>
remoteVars == <<issueState, comments, edits>>
reopenVars == <<reopenCalls, calls, reopenErr>>

\* ---------------------------------------------------------------- actions
\* main: read the two tokens from the environment, then serve.
Main ==
  /\ mainPc = "start"
  /\ \E k \in Secrets, t \in AccessTokens :
        /\ secretToken' = k
        /\ githubAccessToken' = t
  /\ mainPc' = "serving"
  /\ UNCHANGED <<pc, req, validated, event, policy, status, decodeCalls,
                 reopenVars, remoteVars>>

\* The server calls receiver for a request; deliveries are numbered in the
\* order of their arrival.
Deliver(d) ==
  /\ mainPc = "serving"
  /\ pc[d] = "idle"
  /\ \A e \in Deliveries : e < d => pc[e] # "idle"
  /\ \E r \in Requests : req' = [req EXCEPT ![d] = r]
  /\ pc' = [pc EXCEPT ![d] = "read"]
  /\ UNCHANGED <<mainPc, tokenVars, validated, event, policy, status,
                 decodeCalls, reopenVars, remoteVars>>

\* receiver: ioutil.ReadAll(req.Body); on an error, 400 and return.
ReadAll(d) ==
  /\ pc[d] = "read"
  /\ IF req[d].readErr
     THEN /\ status' = [status EXCEPT ![d] = StatusBadRequest]
          /\ pc' = [pc EXCEPT ![d] = "done"]
     ELSE /\ status' = status
          /\ pc' = [pc EXCEPT ![d] = "validate"]
  /\ UNCHANGED <<mainPc, tokenVars, req, validated, event, policy,
                 decodeCalls, reopenVars, remoteVars>>

\* Validate without the return: the handler goes on to decode whatever the
\* validation said.
Validate_IgnoresResult(d) ==
  /\ pc[d] = "validate"
  /\ \E order \in RangeOrders(DOMAIN req[d].header) :
        validated' = [validated EXCEPT ![d] =
                        validateHeaderSig(req[d].header, req[d].body, order)]
  /\ pc' = [pc EXCEPT ![d] = "decode"]
  /\ UNCHANGED <<mainPc, secretToken, githubAccessToken, req, event, policy,
                 status, decodeCalls, reopenCalls, calls, reopenErr,
                 issueState, comments, edits>>

\* receiver: if !validateHeaderSig(req.Header, body) { return }
Validate(d) ==
  /\ pc[d] = "validate"
  /\ \E order \in RangeOrders(DOMAIN req[d].header) :
        LET ok == validateHeaderSig(req[d].header, req[d].body, order)
        IN  /\ validated' = [validated EXCEPT ![d] = ok]
            /\ pc' = [pc EXCEPT ![d] = IF ok THEN "decode" ELSE "done"]
  /\ UNCHANGED <<mainPc, tokenVars, req, event, policy, status,
                 decodeCalls, reopenVars, remoteVars>>

\* receiver: decoder.Decode(&event); on an error, return.
DecodeBody(d) ==
  /\ pc[d] = "decode"
  /\ LET r == Decode(Bodies[req[d].body])
     IN  /\ event' = [event EXCEPT ![d] = r.val]
         /\ pc' = [pc EXCEPT ![d] = IF r.err THEN "done" ELSE "issue"]
  /\ decodeCalls' = [decodeCalls EXCEPT ![d] = @ + 1]
  /\ UNCHANGED <<mainPc, tokenVars, req, validated, policy, status,
                 reopenVars, remoteVars>>

\* receiver: if event.Issue == nil { return }; event itself may be nil, and
\* reading a field through a nil pointer panics.
CheckIssue(d) ==
  /\ pc[d] = "issue"
  /\ pc' = [pc EXCEPT ![d] =
              IF event[d] = <<>> THEN "panic"
              ELSE IF event[d][1].Issue = <<>> THEN "done"
              ELSE "policy"]
  /\ UNCHANGED <<mainPc, tokenVars, req, validated, event, policy, status,
                 decodeCalls, reopenVars, remoteVars>>

\* The policy step with the decision to reopen given as reopen.
ReopenIf(d, reopen) ==
  /\ pc[d] = "policy"
  /\ IF event[d][1].Issue[1].State = <<>>
     THEN /\ pc' = [pc EXCEPT ![d] = "panic"]
          /\ UNCHANGED reopenCalls
     ELSE /\ pc' = [pc EXCEPT ![d] = IF reopen THEN "comment" ELSE "done"]
          /\ reopenCalls' = [reopenCalls EXCEPT ![d] = IF reopen THEN @ + 1 ELSE @]
  /\ UNCHANGED <<mainPc, secretToken, githubAccessToken, req, validated, event,
                 policy, status, decodeCalls, calls, reopenErr, issueState,
                 comments, edits>>

\* CheckPolicy that leaves a closed issue without any label alone.
CheckPolicy_RequiresLabels(d) ==
  ReopenIf(d, /\ event[d][1].Issue[1].State[1] = "closed"
              /\ event[d][1].Issue[1].Labels # <<>>
              /\ ~hasDocLabels(event[d][1].Issue[1].Labels))

\* CheckPolicy without the test of the issue's state.
CheckPolicy_IgnoresState(d) ==
  ReopenIf(d, ~hasDocLabels(event[d][1].Issue[1].Labels))

\* receiver: if *event.Issue.State == "closed" && !hasDocLabels(...) {
\* reopenIssue(...) }; State may be nil, and *State then panics; && does not
\* evaluate hasDocLabels for an issue that is not closed.
CheckPolicy(d) ==
  /\ pc[d] = "policy"
  /\ LET issue == event[d][1].Issue[1]
     IN  IF issue.State = <<>>
         THEN /\ pc' = [pc EXCEPT ![d] = "panic"]
              /\ UNCHANGED <<policy, reopenCalls>>
         ELSE IF issue.State[1] = "closed"
         THEN LET has == hasDocLabels(issue.Labels)
              IN  /\ policy' = [policy EXCEPT ![d] = IF has THEN "true" ELSE "false"]
                  /\ pc' = [pc EXCEPT ![d] = IF has THEN "done" ELSE "comment"]
                  /\ reopenCalls' = [reopenCalls EXCEPT ![d] = IF has THEN @ ELSE @ + 1]
         ELSE /\ pc' = [pc EXCEPT ![d] = "done"]
              /\ UNCHANGED <<policy, reopenCalls>>
  /\ UNCHANGED <<mainPc, tokenVars, req, validated, event, status,
                 decodeCalls, calls, reopenErr, remoteVars>>

\* CreateComment without the return on an error: the edit follows anyway.
CreateComment_AlwaysEdits(d) ==
  /\ pc[d] = "comment"
  /\ \E ok \in BOOLEAN :
        /\ calls' = [calls EXCEPT ![d] = Append(@, [op |-> "comment", ok |-> ok])]
        /\ comments' = IF ok THEN comments + 1 ELSE comments
        /\ reopenErr' = [reopenErr EXCEPT ![d] = ~ok]
  /\ pc' = [pc EXCEPT ![d] = "edit"]
  /\ UNCHANGED <<mainPc, secretToken, githubAccessToken, req, validated, event,
                 policy, status, decodeCalls, reopenCalls, issueState, edits>>

\* reopenIssue: client.Issues.CreateComment; on an error, return it.
CreateComment(d) ==
  /\ pc[d] = "comment"
  /\ \E ok \in BOOLEAN :
        /\ calls' = [calls EXCEPT ![d] = Append(@, [op |-> "comment", ok |-> ok])]
        /\ comments' = IF ok THEN comments + 1 ELSE comments
        /\ reopenErr' = [reopenErr EXCEPT ![d] = ~ok]
        /\ pc' = [pc EXCEPT ![d] = IF ok THEN "edit" ELSE "done"]
  /\ UNCHANGED <<mainPc, tokenVars, req, validated, event, policy, status,
                 decodeCalls, reopenCalls, issueState, edits>>

\* EditIssue that deduplicates: no edit is sent for an issue already open.
EditIssue_SkipIfOpen(d) ==
  /\ pc[d] = "edit"
  /\ IF issueState = "open"
     THEN UNCHANGED <<calls, issueState, edits, reopenErr>>
     ELSE \E ok \in BOOLEAN :
            /\ calls' = [calls EXCEPT ![d] = Append(@, [op |-> "edit", ok |-> ok])]
            /\ issueState' = IF ok THEN "open" ELSE issueState
            /\ edits' = IF ok THEN edits + 1 ELSE edits
            /\ reopenErr' = [reopenErr EXCEPT ![d] = ~ok]
  /\ pc' = [pc EXCEPT ![d] = "done"]
  /\ UNCHANGED <<mainPc, secretToken, githubAccessToken, req, validated, event,
                 policy, status, decodeCalls, reopenCalls, comments>>

\* reopenIssue: client.Issues.Edit with State "open"; return its error or
\* nil, and receiver returns after logging it.
EditIssue(d) ==
  /\ pc[d] = "edit"
  /\ \E ok \in BOOLEAN :
        /\ calls' = [calls EXCEPT ![d] = Append(@, [op |-> "edit", ok |-> ok])]
        /\ issueState' = IF ok THEN "open" ELSE issueState
        /\ edits' = IF ok THEN edits + 1 ELSE edits
        /\ reopenErr' = [reopenErr EXCEPT ![d] = ~ok]
  /\ pc' = [pc EXCEPT ![d] = "done"]
  /\ UNCHANGED <<mainPc, tokenVars, req, validated, event, policy, status,
                 decodeCalls, reopenCalls, comments>>

Next ==
  \/ Main
  \/ \E d \in Deliveries :
        \/ Deliver(d)
        \/ ReadAll(d)
        \/ Validate(d)
        \/ DecodeBody(d)
        \/ CheckIssue(d)
        \/ CheckPolicy(d)
        \/ CreateComment(d)
        \/ EditIssue(d)

Spec == Init /\ [][Next]_vars

\* The response the sender gets once the handler has returned: the status the
\* handler wrote, or 200 when it wrote none.  A handler that panicked is
\* recovered by the server, which closes the connection without a response
\* (0 here); 0 also while the handler runs.
Response(d) ==
  IF pc[d] = "done" THEN (IF status[d] = 0 THEN StatusOK ELSE status[d]) ELSE 0

\* ------------------------------------- validateHeaderSig as a function
\* "x-hub-signature" and "X-HUB-SIGNATURE": names that canonicalize to
\* X-Hub-Signature; "X-Hub_Signature" does not.
LowerSignature == <<120, 45, 104, 117, 98, 45, 115, 105, 103, 110, 97, 116, 117, 114, 101>>
UpperSignature == <<88, 45, 72, 85, 66, 45, 83, 73, 71, 78, 65, 84, 85, 82, 69>>
UnderscoreSignature == <<88, 45, 72, 117, 98, 95, 83, 105, 103, 110, 97, 116, 117, 114, 101>>
SignatureNames == {XHubSignature, LowerSignature, UpperSignature}

\* The two runs of a function that is checked on its own.
Runs == {1, 2}

\* Upper case of a byte
ToUpper(c) == IF IsLower(c) THEN c - 32 ELSE c

\* Values a header may hold for body when the server's secret is key: the
\* signature, every single-bit flip of it, the signature under another key or
\* of another body, and malformed ones.
HeaderValues(key, body) ==
  LET good == ExpectedSignature(key, body)
  IN  {good}
        \cup {FlipBit(good, pos, bit) : pos \in 1..Len(good), bit \in 0..7}
        \cup {ExpectedSignature(k, body) : k \in Secrets}
        \cup {ExpectedSignature(key, b) : b \in BodyIds}
        \cup {SubSeq(good, 1, Len(good) - 1), good \o <<48>>,
              SubSeq(good, Len(Sha1Prefix) + 1, Len(good)),
              [i \in 1..Len(good) |-> ToUpper(good[i])], <<>>}

\* Value lists for the maps that hold several signature names.
FewLists(key, body) ==
  LET good == ExpectedSignature(key, body)
  IN  {<<>>, <<good>>, <<FlipBit(good, Len(good), 0)>>, <<good, good>>}

ValueLists(key, body) ==
  FewLists(key, body) \cup {<<v>> : v \in HeaderValues(key, body)}
    \cup {<<FlipBit(ExpectedSignature(key, body), 1, 0), ExpectedSignature(key, body)>>}

\* The header maps validateHeaderSig is applied to: any map[string][]string,
\* so the names need not be canonical and several may canonicalize alike.
HeaderMaps(key, body) ==
  LET one == {n :> l : n \in SignatureNames \cup {UnderscoreSignature, ContentType},
                       l \in ValueLists(key, body)}
      several == UNION {[names -> FewLists(key, body)] :
                          names \in {ns \in SUBSET SignatureNames : Cardinality(ns) >= 2}}
  IN  {<<>>} \cup one
        \cup {(ContentType :> <<AppJson>>) @@ m : m \in one}
        \cup several
        \cup {(ContentType :> <<AppJson>>) @@ m : m \in several}

\* Bodies the function is applied to on its own
ValidateBodies == {2, 11, 13}

InitValidate ==
  /\ mainPc = "serving"
  /\ secretToken \in Secrets
  /\ githubAccessToken \in AccessTokens
  /\ \E b \in ValidateBodies :
       \E h \in HeaderMaps(secretToken, b) :
          req = [d \in Deliveries |->
                   IF d \in Runs THEN [header |-> h, body |-> b, readErr |-> FALSE]
                   ELSE NoRequest]
  /\ pc = [d \in Deliveries |-> IF d \in Runs THEN "validate" ELSE "idle"]
  /\ validated = [d \in Deliveries |-> FALSE]
  /\ event = [d \in Deliveries |-> <<>>]
  /\ policy = [d \in Deliveries |-> "notrun"]
  /\ status = [d \in Deliveries |-> 0]
  /\ decodeCalls = [d \in Deliveries |-> 0]
  /\ reopenCalls = [d \in Deliveries |-> 0]
  /\ calls = [d \in Deliveries |-> <<>>]
  /\ reopenErr = [d \in Deliveries |-> FALSE]
  /\ issueState = "closed"
  /\ comments = 0
  /\ edits = 0

NextValidate == \E d \in Deliveries : Validate(d)

SpecValidate == InitValidate /\ [][NextValidate]_vars

\* ------------------------------------------ hasDocLabels as a function
\* Label names: the two constants, two that differ from them in case only,
\* another name, and a label without a name.
LabelNames == {<<docsHasImpact>>, <<docsNoImpact>>, <<"Docs/Has-Impact">>,
               <<"DOCS/NO-IMPACT">>, <<"bug">>, <<>>}

LabelLists ==
  UNION {[1..n -> {[Name |-> nm] : nm \in LabelNames}] : n \in 0..MaxLabels}

ClosedIssueEvent(labels) == <<[Issue |-> <<[State |-> <<"closed">>, Labels |-> labels]>>]>>

InitLabels ==
  /\ mainPc = "serving"
  /\ secretToken \in Secrets
  /\ githubAccessToken \in AccessTokens
  /\ req = [d \in Deliveries |-> NoRequest]
  /\ pc = [d \in Deliveries |-> IF d \in Runs THEN "policy" ELSE "idle"]
  /\ validated = [d \in Deliveries |-> d \in Runs]
  /\ \E l1 \in LabelLists, l2 \in LabelLists :
        event = [d \in Deliveries |->
                   IF d = 1 THEN ClosedIssueEvent(l1)
                   ELSE IF d = 2 THEN ClosedIssueEvent(l2) ELSE <<>>]
  /\ policy = [d \in Deliveries |-> "notrun"]
  /\ status = [d \in Deliveries |-> 0]
  /\ decodeCalls = [d \in Deliveries |-> IF d \in Runs THEN 1 ELSE 0]
  /\ reopenCalls = [d \in Deliveries |-> 0]
  /\ calls = [d \in Deliveries |-> <<>>]
  /\ reopenErr = [d \in Deliveries |-> FALSE]
  /\ issueState = "closed"
  /\ comments = 0
  /\ edits = 0

NextLabels == \E d \in Deliveries : CheckPolicy(d)

SpecLabels == InitLabels /\ [][NextLabels]_vars

\* =================================================================== claims
\* What a request asks for, read off the JSON text and the header map.
Finished(d) == pc[d] \in {"done", "panic"}

DocLabels == {docsHasImpact, docsNoImpact}

HasIssueObject(b) ==
  /\ Bodies[b].kind = "object"
  /\ "issue" \in DOMAIN Bodies[b].fields
  /\ Bodies[b].fields["issue"].kind = "object"

IssueFields(b) == Bodies[b].fields["issue"].fields

StateIs(b, s) ==
  /\ "state" \in DOMAIN IssueFields(b)
  /\ IssueFields(b)["state"].kind = "string"
  /\ IssueFields(b)["state"].str = s

BodyLabelNames(b) ==
  IF "labels" \in DOMAIN IssueFields(b) /\ IssueFields(b)["labels"].kind = "array"
  THEN LET items == IssueFields(b)["labels"].items
       IN  {items[i].fields["name"].str :
              i \in {j \in 1..Len(items) : /\ items[j].kind = "object"
                                           /\ "name" \in DOMAIN items[j].fields
                                           /\ items[j].fields["name"].kind = "string"}}
  ELSE {}

ClosedUnlabelled(b) ==
  /\ HasIssueObject(b)
  /\ StateIs(b, "closed")
  /\ BodyLabelNames(b) \cap DocLabels = {}

\* The request carries X-Hub-Signature once, with the signature of its body.
Signed(d) ==
  /\ XHubSignature \in DOMAIN req[d].header
  /\ req[d].header[XHubSignature] = <<ExpectedSignature(secretToken, req[d].body)>>

NoRemoteCall(d) == reopenCalls[d] = 0 /\ calls[d] = <<>>

\* C1: a delivery whose signature validates and whose body holds a closed
\* issue with neither docs label has called the reopener exactly once when the
\* handler returns, and no delivery ever calls it more than once.
C1_ReopenedExactlyOnce ==
  \A d \in Deliveries :
    /\ reopenCalls[d] <= 1
    /\ (Finished(d) /\ validated[d] /\ ClosedUnlabelled(req[d].body))
         => reopenCalls[d] = 1

C1_Witness ==
  \E d \in Deliveries :
    /\ pc[d] = "done" /\ validated[d] /\ req[d].body = 11
    /\ event[d][1].Issue[1].Labels = <<>>
    /\ reopenCalls[d] = 1

\* C2: a delivery whose issue is not closed, or is closed and carries one of
\* the two docs labels, never calls the reopener and issues no remote call.
C2_NotReopened ==
  \A d \in Deliveries :
    (/\ pc[d] # "idle"
     /\ HasIssueObject(req[d].body)
     /\ \/ ~StateIs(req[d].body, "closed")
        \/ BodyLabelNames(req[d].body) \cap DocLabels # {})
      => NoRemoteCall(d)

C2_Witness ==
  \E d, e \in Deliveries :
    /\ pc[d] = "done" /\ validated[d] /\ req[d].body = 9 /\ NoRemoteCall(d)
    /\ pc[e] = "done" /\ validated[e] /\ req[e].body = 13 /\ policy[e] = "true"
    /\ NoRemoteCall(e)
    /\ comments = 0 /\ edits = 0

\* C3: for a request whose signature validation returned false (the header
\* missing, with several values, or with another value), the handler has
\* returned without decoding the body, evaluating the label policy or issuing
\* a remote call.
C3_ValidationFirst ==
  \A d \in Deliveries :
    /\ (pc[d] \notin {"idle", "read", "validate"} /\ ~validated[d]) => pc[d] = "done"
    /\ (~validated[d] \/ ~Signed(d))
         => /\ decodeCalls[d] = 0
            /\ policy[d] = "notrun"
            /\ NoRemoteCall(d)

C3_Witness ==
  \E d \in Deliveries :
    /\ pc[d] = "done" /\ ~req[d].readErr /\ ~validated[d]
    /\ XHubSignature \notin DOMAIN req[d].header
    /\ ClosedUnlabelled(req[d].body)
    /\ decodeCalls[d] = 0

SignatureEntries(h) == DOMAIN h \cap SignatureNames

\* C4: validateHeaderSig returns false on a map without the signature header;
\* when it returns true, a signature header holds exactly one value, the
\* expected signature of the body; and on a map with one signature header
\* (under any spelling of its name) it returns true exactly when that header
\* holds exactly one value and the value is the expected signature.
C4_ValidateIff ==
  \A d \in Runs :
    pc[d] # "validate" =>
      LET h == req[d].header
          want == <<ExpectedSignature(secretToken, req[d].body)>>
          names == SignatureEntries(h)
      IN  /\ names = {} => ~validated[d]
          /\ validated[d] => \E k \in names : h[k] = want
          /\ Cardinality(names) = 1 => (validated[d] <=> \A k \in names : h[k] = want)

C4_Witness ==
  \E d \in Runs :
    /\ validated[d] /\ pc[d] = "decode"
    /\ DOMAIN req[d].header = {LowerSignature, ContentType}

LabelsOf(d) == event[d][1].Issue[1].Labels

\* C5: hasDocLabels returns true exactly when some label is named
\* docs/has-impact or docs/no-impact, and two label lists with the same labels,
\* in any order and number, get the same answer.
C5_LabelPolicy ==
  /\ \A d \in Runs :
       policy[d] # "notrun" =>
         (policy[d] = "true" <=>
            \E i \in DOMAIN LabelsOf(d) :
               LabelsOf(d)[i].Name \in {<<docsHasImpact>>, <<docsNoImpact>>})
  /\ \A d, e \in Runs :
       (/\ policy[d] # "notrun" /\ policy[e] # "notrun"
        /\ {LabelsOf(d)[i] : i \in DOMAIN LabelsOf(d)} = {LabelsOf(e)[i] : i \in DOMAIN LabelsOf(e)})
         => policy[d] = policy[e]

C5_Witness ==
  /\ policy[1] = "true" /\ policy[2] = "true"
  /\ LabelsOf(1) = <<[Name |-> <<"bug">>], [Name |-> <<docsNoImpact>>]>>
  /\ LabelsOf(2) = <<[Name |-> <<docsNoImpact>>], [Name |-> <<"bug">>]>>

\* C6: the remote calls of a call of reopenIssue are a prefix of <<comment,
\* edit>>; the edit is attempted exactly when the comment was posted; the
\* error returned is non-nil exactly when a call failed; and the issue on
\* GitHub holds one comment per posted comment and is open exactly when an
\* edit succeeded.
C6_ReopenSequence ==
  /\ \A d \in Deliveries :
       LET c == calls[d]
       IN  /\ Len(c) <= 2
           /\ Len(c) >= 1 => c[1].op = "comment"
           /\ Len(c) = 2 => (c[2].op = "edit" /\ c[1].ok)
           /\ reopenCalls[d] = 0 => c = <<>>
           /\ (pc[d] = "done" /\ reopenCalls[d] = 1)
                => /\ Len(c) >= 1
                   /\ Len(c) = 2 <=> c[1].ok
                   /\ reopenErr[d] <=> \E i \in DOMAIN c : ~c[i].ok
  /\ comments = Cardinality({d \in Deliveries : Len(calls[d]) >= 1 /\ calls[d][1].ok})
  /\ edits = Cardinality({d \in Deliveries : Len(calls[d]) = 2 /\ calls[d][2].ok})
  /\ issueState = "open" <=> edits > 0

C6_Witness ==
  \E d \in Deliveries :
    /\ pc[d] = "done"
    /\ calls[d] = <<[op |-> "comment", ok |-> TRUE], [op |-> "edit", ok |-> FALSE]>>
    /\ reopenErr[d]
    /\ comments = 1 /\ issueState = "closed"

\* C7: the response is 400 exactly when reading the body failed, and then
\* nothing was validated, decoded or sent; every other request is answered
\* with the default 200.
C7_ResponseStatus ==
  \A d \in Deliveries :
    Finished(d) =>
      /\ Response(d) = StatusBadRequest <=> req[d].readErr
      /\ req[d].readErr => (~validated[d] /\ decodeCalls[d] = 0 /\ NoRemoteCall(d))
      /\ ~req[d].readErr => Response(d) = StatusOK

Qualifies(d) == ~req[d].readErr /\ Signed(d) /\ ClosedUnlabelled(req[d].body)

\* C8: deliveries are neither deduplicated nor coupled: once every delivery
\* has been handled and no remote call failed, there is one comment and one
\* edit per delivery of a signed, closed, unlabelled issue, and the issue is
\* open; a delivery calls the reopener exactly when its own request is one;
\* and the two tokens never change once the server serves.
C8_State ==
  /\ \A d \in Deliveries : Finished(d) => (reopenCalls[d] = 1 <=> Qualifies(d))
  /\ (/\ \A d \in Deliveries : Finished(d)
      /\ \A d \in Deliveries : \A i \in DOMAIN calls[d] : calls[d][i].ok)
       => LET k == Cardinality({d \in Deliveries : Qualifies(d)})
          IN  /\ comments = k
              /\ edits = k
              /\ k > 0 => issueState = "open"

\* C8, as a property of behaviours: the state part above always holds, and no
\* step taken while the server serves writes secretToken or githubAccessToken.
C8_Independent ==
  /\ []C8_State
  /\ [][mainPc = "serving" => UNCHANGED <<secretToken, githubAccessToken>>]_vars

C8_Witness ==
  /\ \A d \in Deliveries : pc[d] = "done" /\ Qualifies(d) /\ req[d] = req[1]
  /\ comments = NumDeliveries /\ edits = NumDeliveries
  /\ issueState = "open"

\* C9: a correctly signed request whose body decodes without an error never
\* brings the handler to a panic.
C9_NoPanic ==
  \A d \in Deliveries :
    (validated[d] /\ decodeCalls[d] = 1 /\ ~Decode(Bodies[req[d].body]).err)
      => pc[d] # "panic"

\* C10: two runs of validateHeaderSig on the same header map and body, under
\* the same secret, return the same boolean.
C10_Deterministic ==
  (/\ pc[1] # "validate" /\ pc[2] # "validate"
   /\ req[1] = req[2])
    => validated[1] = validated[2]

====
